---- MODULE Spec2Model ----
(***************************************************************************)
(* Juxtaprompt: the streaming core.                                        *)
(*                                                                         *)
(*   - LLMProviderManager (services/llm/llm-provider-manager.ts): the      *)
(*     registry of in-flight requests, sendStreamingRequest, cancelRequest *)
(*     and cancelAllRequests, createRequest and validateConfig;            *)
(*   - the OpenAI and Anthropic adapters (sendStreamingRequest,            *)
(*     makeRequest, processSSEStream, parseStreamChunk, validateConfig);   *)
(*   - RateLimiter (services/rate-limiting/rate-limiter.ts);               *)
(*   - BaseLLMProvider's cache of model lists (getAvailableModels);        *)
(*   - EnhancedStorageService (the three tiers that hold the API keys).    *)
(*                                                                         *)
(* SpecManager is the manager with two requests in flight, SpecStream one  *)
(* request through the manager and either adapter, SpecLimiter the rate    *)
(* limiter.  Each leaves the variables of the others' alone.  SpecLedger   *)
(* is the limiter with callers that note what they acquire and release,    *)
(* SpecModels the model list cache, SpecStorage the storage service and    *)
(* SpecSegments the decoding of one body read in two segmentations.        *)
(*                                                                         *)
(* An async generator is modelled by the places where it is suspended: a   *)
(* step of the model runs the code from one suspension (a yield, an await  *)
(* of the network) to the next, as the single-threaded runtime does.       *)
(***************************************************************************)
EXTENDS Integers, Sequences, FiniteSets, TLC

----------------------------------------------------------------------------
(* Bounds of the model *)

\* Lines (frames) one response body delivers at most.
MaxFrames == 2

\* Lines one response body delivers at most where the lines are recorded.
MaxFed == 3

\* The logical requests a caller issues.
Req == {1, 2}

\* Caller-supplied request ids (createRequest's optional id): two requests
\* may carry the same one.
Ids == {"a", "b"}

\* activeRequests holds no controller for an id.
NoReq == 0

----------------------------------------------------------------------------
(* Inputs *)

\* An LLMConfig, reduced to what validateConfig reads: the provider tag,
\* whether LLMConfigSchema accepts the object, the API key, the model and
\* maxTokens.
Config(p, s, k, m, t) ==
    [provider |-> p, schemaOk |-> s, apiKey |-> k, model |-> m, maxTokens |-> t]

Configs ==
    { Config("openai", TRUE, "sk-proj", "gpt-4o", 4096),
      Config("openai", TRUE, "key", "gpt-4o", 4096),
      Config("openai", FALSE, "sk-proj", "gpt-4o", 4096),
      Config("anthropic", TRUE, "sk-ant-1", "claude-3-opus-20240229", 4096),
      Config("anthropic", TRUE, "sk-ant-1", "claude-3-opus-20240229", 16000),
      Config("gemini", TRUE, "AIza", "gemini-pro", 4096) }

\* One line of a response body, as the vendor writes it.
\*   data / done      data: [DONE]
\*   data / json      data: <a JSON object the OpenAI schema accepts>, with
\*                    choices[0].delta.content and choices[0].finish_reason
\*   data / nochoice  data: <accepted JSON whose choices array is empty>
\*   data / event     data: <a JSON object the Anthropic schema accepts>
\*   data / ping      data: {}
\*   data / bad       data: <text JSON.parse or the schema rejects>
\*   event            event: <name>
\*   blank            an empty line
OpenAIFrames ==
    { [line |-> "data", kind |-> "done"],
      [line |-> "data", kind |-> "json", content |-> "Hi", finish |-> FALSE],
      [line |-> "data", kind |-> "json", content |-> "", finish |-> TRUE],
      [line |-> "data", kind |-> "nochoice"],
      [line |-> "data", kind |-> "bad"],
      [line |-> "blank"] }

AnthropicFrames ==
    { [line |-> "data", kind |-> "event", type |-> "message_start", text |-> "", stop |-> FALSE],
      [line |-> "data", kind |-> "event", type |-> "content_block_delta", text |-> "Hi", stop |-> FALSE],
      [line |-> "data", kind |-> "event", type |-> "message_delta", text |-> "", stop |-> TRUE],
      [line |-> "data", kind |-> "event", type |-> "message_stop", text |-> "", stop |-> FALSE],
      [line |-> "data", kind |-> "ping"],
      [line |-> "data", kind |-> "bad"],
      [line |-> "event", name |-> "message_stop"],
      [line |-> "event", name |-> "ping"] }

\* The lines of the documented scenarios, fed where the lines are recorded:
\*   data / bare      data: {"choices":[{"delta":{"content":"Hi"},
\*                    "finish_reason":null}]}, a JSON object without the id,
\*                    object, created and model OpenAIStreamChunkSchema requires
\*   a content_block_delta event whose delta.text is "Hello"
ScenarioFrames(provider) ==
    IF provider = "openai"
    THEN { [line |-> "data", kind |-> "bare", content |-> "Hi", finish |-> FALSE] }
    ELSE { [line |-> "data", kind |-> "event", type |-> "content_block_delta",
            text |-> "Hello", stop |-> FALSE] }

FramesOf(provider) ==
    IF provider = "openai" THEN OpenAIFrames ELSE AnthropicFrames

\* What the transport answers to fetch().
HttpStatuses == {400, 408, 429, 500}

FetchOutcomes ==
    { [t |-> "network"], [t |-> "timeout"], [t |-> "nobody"], [t |-> "ok"] }
    \cup { [t |-> "http", status |-> s] : s \in HttpStatuses }

----------------------------------------------------------------------------
(* State *)

VARIABLES
    \* LLMProviderManager
    providers,        \* names of the registered providers
    activeRequests,   \* id -> the request whose AbortController is registered
    aborted,          \* request -> its controller's signal.aborted
    \* one logical request each: the caller, the manager's generator, the adapter
    pc,               \* where the request is
    request,          \* the LLMRequest: [id, config]
    created,          \* what createRequest returned for it: "ok" or the failure's code
    got,              \* the chunks the caller's iterator yielded, in order
    error,            \* the error the iterator threw, or NoError
    nframes,          \* lines the adapter has consumed from the body
    reader,           \* the body reader's lock: "none", "held", "released"
    adapterCalls,     \* request -> times an adapter's sendStreamingRequest ran
    httpCalls,        \* request -> times fetch() was called
    cancelledAt,      \* request -> Len(got) when its controller was aborted, or -1
    cancelled,        \* id -> cancelRequest(id) returned true and the id was not registered since
    returned,         \* request -> the caller abandoned the iterator (return())
    lastCall,         \* the last synchronous manager call and what it returned
    fed,              \* request -> the lines its adapter was fed, where they are recorded
    responseStatus,   \* request -> the status of the response fetch() got, or NoStatus
    \* RateLimiter
    state,            \* [requestCount, lastResetTime, activeRequests, backoffUntil]
    resetTimer,       \* when the scheduled reset is due, or NoTimer
    now,              \* Date.now()
    lastLimiterCall,  \* the last limiter call and what it returned
    granted,          \* acquireRequest() calls that returned true in this window
    lastBackoffMs,    \* the delay the last handleRateLimitResponse() computed, 0 when
                      \* none did since handleSuccessfulRequest(), reset() or a retry-after
    waiter,           \* the caller inside waitForAvailability
    ledger,           \* where it is kept: when acquireRequest() returned true in
                      \* the last 60000 ms, and the slots acquired and not released
    \* BaseLLMProvider's model list
    models,           \* [cache, pc, key, cached, result]
    \* EnhancedStorageService
    storage,          \* [memory, session, local, preference, last, failed]
    \* processSSEStream's decoding of the body
    segments          \* [body, ended, readers]

managerVars ==
    << providers, activeRequests, aborted, pc, request, created, got, error, nframes,
       reader, adapterCalls, httpCalls, cancelledAt, cancelled, returned, lastCall,
       fed, responseStatus >>

limiterVars ==
    << state, resetTimer, now, lastLimiterCall, granted, lastBackoffMs, waiter >>

serviceVars == << models, storage, segments >>

vars == << managerVars, limiterVars, ledger, serviceVars >>

NoStatus == 0
NoError == [code |-> "none", retryable |-> FALSE, statusCode |-> NoStatus]
NoCall == [op |-> "none"]
NoRequest == [id |-> "none"]
NoTimer == -1
NoWaiter ==
    [pc |-> "idle", startTime |-> 0, timeoutMs |-> 0, sleepMs |-> 0, wakeAt |-> 0,
     ret |-> FALSE]
NoLedger == [grants |-> << >>, held |-> 0]

\* The model list: what is cached, per cache key, and the one call in progress.
CacheKeys == {"openai_key1_default", "openai_key2_default"}
NoEntry == [models |-> "none", timestamp |-> -1]
NoResult == [models |-> "none", cached |-> FALSE, timestamp |-> -1, fetched |-> "no"]
NoModels ==
    [cache |-> [k \in CacheKeys |-> NoEntry], pc |-> "idle", key |-> "none",
     cached |-> NoEntry, result |-> NoResult]

\* The storage service: the three tiers hold a key per provider, or NoKey; the
\* preference is the item under PREFERENCE_KEY, or NoPreference.
StorageProviders == {"openai", "anthropic"}
NoKey == "null"
NoPreference == [type |-> "unset", acknowledgedRisks |-> FALSE]
NoStorage ==
    [memory |-> [p \in StorageProviders |-> NoKey],
     session |-> [p \in StorageProviders |-> NoKey],
     local |-> [p \in StorageProviders |-> NoKey],
     preference |-> NoPreference, last |-> NoCall, failed |-> FALSE]

\* The body of a response and the two readers that take it in segments.
SegReaders == {"a", "b"}
NoSegReader ==
    [read |-> 0, pending |-> << >>, buffer |-> << >>, out |-> << >>, done |-> FALSE]
NoSegments ==
    [body |-> << >>, ended |-> FALSE, readers |-> [s \in SegReaders |-> NoSegReader]]

\* LLMStreamChunk, without the requestId every chunk of a request shares.
Chunk(c, done) == [content |-> c, isComplete |-> done]
NoChunk == [content |-> "none", isComplete |-> FALSE]

\* LLMError: createError
Error(code, retryable, status) ==
    [code |-> code, retryable |-> retryable, statusCode |-> status]

----------------------------------------------------------------------------
(* Validation *)

\* String.prototype.startsWith on the API keys of Configs.
StartsWith(key, prefix) ==
    \/ prefix = "sk-" /\ key \in {"sk-proj", "sk-ant-1"}   \* not "key", "AIza"
    \/ prefix = "sk-ant-" /\ key \in {"sk-ant-1"}

OpenAISupportedModels ==
    {"gpt-4o", "gpt-4o-mini", "gpt-4-turbo", "gpt-4", "gpt-3.5-turbo"}

AnthropicSupportedModels ==
    {"claude-3-5-sonnet-20241022", "claude-3-5-haiku-20241022",
     "claude-3-opus-20240229", "claude-3-sonnet-20240229",
     "claude-3-haiku-20240307"}

AnthropicMaxTokens == 8192

\* BaseLLMProvider.validateConfig: validateLLMConfig, the zod schema.
BaseValidateConfig(c) ==
    IF c.schemaOk THEN "ok" ELSE "VALIDATION_ERROR"

\* OpenAIProvider.validateConfig: "ok", or the code of the failure.
OpenAIValidateConfig(c) ==
    IF BaseValidateConfig(c) # "ok" THEN BaseValidateConfig(c)
    ELSE IF c.provider # "openai" THEN "INVALID_PROVIDER"
    ELSE IF ~StartsWith(c.apiKey, "sk-") THEN "INVALID_API_KEY"
    ELSE IF c.model \notin OpenAISupportedModels THEN "UNSUPPORTED_MODEL"
    ELSE "ok"

\* AnthropicProvider.validateConfig
AnthropicValidateConfig(c) ==
    IF BaseValidateConfig(c) # "ok" THEN BaseValidateConfig(c)
    ELSE IF c.provider # "anthropic" THEN "INVALID_PROVIDER"
    ELSE IF ~StartsWith(c.apiKey, "sk-ant-") THEN "INVALID_API_KEY"
    ELSE IF c.model \notin AnthropicSupportedModels THEN "UNSUPPORTED_MODEL"
    ELSE IF c.maxTokens > AnthropicMaxTokens THEN "INVALID_MAX_TOKENS"
    ELSE "ok"

\* provider.validateConfig(config), by the provider's name.
ProviderValidateConfig(name, c) ==
    IF name = "openai" THEN OpenAIValidateConfig(c) ELSE AnthropicValidateConfig(c)

\* LLMProviderManager.validateConfig
ValidateConfig(name, c) ==
    IF name \notin providers THEN "PROVIDER_NOT_FOUND"
    ELSE ProviderValidateConfig(name, c)

----------------------------------------------------------------------------
(* The adapters' frame parsers *)

\* parseStreamChunk that answers a payload it cannot use with an empty chunk
\* instead of null.
OpenAIParseStreamChunkNeverNull(f) ==
    IF f.kind = "json" THEN Chunk(f.content, f.finish) ELSE Chunk("", FALSE)

\* OpenAIProvider.parseStreamChunk on the payload of a data line: the chunk,
\* or NoChunk for null (JSON.parse threw, the schema rejected the object - as
\* it does the "bare" one - or choices is empty).
OpenAIParseStreamChunk(f) ==
    IF f.kind = "json" THEN Chunk(f.content, f.finish) ELSE NoChunk

\* parseStreamChunk that has no chunk for message_start.
AnthropicParseStreamChunkSkipsStart(f) ==
    IF f.kind # "event" THEN NoChunk
    ELSE IF f.type = "content_block_delta"
         THEN IF f.text # "" THEN Chunk(f.text, FALSE) ELSE NoChunk
    ELSE IF f.type = "message_delta"
         THEN IF f.stop THEN Chunk("", TRUE) ELSE NoChunk
    ELSE IF f.type = "message_stop" THEN Chunk("", TRUE)
    ELSE NoChunk

\* AnthropicProvider.parseStreamChunk
AnthropicParseStreamChunk(f) ==
    IF f.kind # "event" THEN NoChunk
    ELSE IF f.type = "message_start" THEN Chunk("", FALSE)
    ELSE IF f.type = "content_block_delta"
         THEN IF f.text # "" THEN Chunk(f.text, FALSE) ELSE NoChunk
    ELSE IF f.type = "message_delta"
         THEN IF f.stop THEN Chunk("", TRUE) ELSE NoChunk
    ELSE IF f.type = "message_stop" THEN Chunk("", TRUE)
    ELSE NoChunk

\* OpenAIProvider.processSSEStream, the body of its loop over the lines: the
\* chunk the line makes the adapter yield, or NoChunk when it yields nothing.
OpenAIProcessLine(f) ==
    IF f.line # "data" THEN NoChunk
    ELSE IF f.kind = "done" THEN Chunk("", TRUE)
    ELSE OpenAIParseStreamChunk(f)

\* AnthropicProvider.processSSEStream, the body of its loop over the lines.
AnthropicProcessLine(f) ==
    IF f.line = "data"
    THEN IF f.kind = "ping" THEN NoChunk ELSE AnthropicParseStreamChunk(f)
    ELSE IF f.line = "event" /\ f.name = "message_stop" THEN Chunk("", TRUE)
    ELSE NoChunk

ProcessLine(provider, f) ==
    IF provider = "openai" THEN OpenAIProcessLine(f) ELSE AnthropicProcessLine(f)

\* processSSEStream after a yield: `return` once the chunk it yielded was the
\* [DONE] chunk or had isComplete set; otherwise it goes on with the lines.
AdapterReturnsAfter(c) == c.isComplete

\* The retryable flag as BaseLLMProvider.handleHTTPError has it, without 408.
HttpRetryableWithout408(status) == status >= 500 \/ status = 429

\* handleHTTPError of both adapters: the retryable flag of a status.
HttpRetryable(status) == status >= 500 \/ status = 429 \/ status = 408

\* The code is `OPENAI_HTTP_${status}` or `ANTHROPIC_HTTP_${status}`: the
\* prefix here, the status in the error's statusCode.
HttpErrorCode(provider) ==
    IF provider = "openai" THEN "OPENAI_HTTP" ELSE "ANTHROPIC_HTTP"

\* makeRequest and the head of processSSEStream: the error a fetch outcome
\* raises, NoError when the response is ok and has a body.
FetchError(provider, o) ==
    IF o.t = "network" THEN Error("NETWORK_ERROR", TRUE, NoStatus)
    ELSE IF o.t = "timeout" THEN Error("TIMEOUT_ERROR", TRUE, NoStatus)
    ELSE IF o.t = "http"
         THEN Error(HttpErrorCode(provider), HttpRetryable(o.status), o.status)
    ELSE IF o.t = "nobody" THEN Error("NO_RESPONSE_BODY", FALSE, NoStatus)
    ELSE NoError

\* processSSEStream's catch: an error thrown by reader.read() is wrapped by
\* handleParsingError.
ReadError == Error("PARSING_ERROR", FALSE, NoStatus)

----------------------------------------------------------------------------
(* LLMProviderManager *)

\* The state after construction, with the adapters ps registered
\* (registerProvider).
Init(ps) ==
    /\ providers = ps
    /\ activeRequests = [i \in Ids |-> NoReq]
    /\ aborted = [r \in Req |-> FALSE]
    /\ pc = [r \in Req |-> "idle"]
    /\ request = [r \in Req |-> NoRequest]
    /\ created = [r \in Req |-> "none"]
    /\ got = [r \in Req |-> << >>]
    /\ error = [r \in Req |-> NoError]
    /\ nframes = [r \in Req |-> 0]
    /\ reader = [r \in Req |-> "none"]
    /\ adapterCalls = [r \in Req |-> 0]
    /\ httpCalls = [r \in Req |-> 0]
    /\ cancelledAt = [r \in Req |-> -1]
    /\ cancelled = [i \in Ids |-> FALSE]
    /\ returned = [r \in Req |-> FALSE]
    /\ lastCall = NoCall
    /\ fed = [r \in Req |-> << >>]
    /\ responseStatus = [r \in Req |-> NoStatus]
    /\ state = [requestCount |-> 0, lastResetTime |-> 0,
                activeRequests |-> 0, backoffUntil |-> 0]
    /\ resetTimer = NoTimer
    /\ now = 0
    /\ lastLimiterCall = NoCall
    /\ granted = 0
    /\ lastBackoffMs = 0
    /\ waiter = NoWaiter
    /\ ledger = NoLedger
    /\ models = NoModels
    /\ storage = NoStorage
    /\ segments = NoSegments

\* The synthesized terminal chunk (lines 81-85, and the adapters' [DONE]).
Terminal == Chunk("", TRUE)

\* this.activeRequests.set(request.id, controller)
Register(id, r) == [activeRequests EXCEPT ![id] = r]

\* A registry whose delete is lost: the entry stays.
DeregisterKeepsEntry(id) == activeRequests

\* this.activeRequests.delete(id)
Deregister(id) == [activeRequests EXCEPT ![id] = NoReq]

\* controller.abort() on a set of requests' controllers; cancelledAt notes how
\* many chunks the caller had when a controller was first aborted.
Abort(rs) ==
    /\ aborted' = [r \in Req |-> aborted[r] \/ r \in rs]
    /\ cancelledAt' = [r \in Req |->
                         IF r \in rs /\ ~aborted[r] THEN Len(got[r]) ELSE cancelledAt[r]]

\* createRequest(prompt, config, id): a failure result, or the request.  After
\* a failure request[r] is the LLMRequest a caller may still build by hand
\* from the same arguments.
CreateRequest(r, config, id) ==
    /\ pc[r] = "idle"
    /\ LET validation == ValidateConfig(config.provider, config) IN
        /\ pc' = [pc EXCEPT ![r] = IF validation = "ok" THEN "created" ELSE "rejected"]
        /\ created' = [created EXCEPT ![r] = validation]
    /\ lastCall' = NoCall
    /\ request' = [request EXCEPT ![r] = [id |-> id, config |-> config]]
    /\ UNCHANGED << providers, activeRequests, aborted, got, error, nframes, reader,
                    adapterCalls, httpCalls, cancelledAt, cancelled, returned >>
    /\ UNCHANGED << fed, responseStatus, limiterVars, ledger, serviceVars >>

\* A sendStreamingRequest that registers the request's token in the call.
SendStreamingRequestRegisters(r) ==
    /\ pc[r] \in {"created", "rejected"}
    /\ pc' = [pc EXCEPT ![r] = "called"]
    /\ activeRequests' = Register(request[r].id, r)
    /\ lastCall' = NoCall
    /\ UNCHANGED << providers, aborted, request, created, got, error, nframes,
                    reader, adapterCalls, httpCalls, cancelledAt, cancelled, returned >>
    /\ UNCHANGED << fed, responseStatus, limiterVars, ledger, serviceVars >>

\* sendStreamingRequest(request): an async generator function, so the call
\* only makes the iterator; none of its body has run.
SendStreamingRequest(r) ==
    /\ pc[r] \in {"created", "rejected"}
    /\ pc' = [pc EXCEPT ![r] = "called"]
    /\ lastCall' = NoCall
    /\ UNCHANGED << providers, activeRequests, aborted, request, created, got, error, nframes,
                    reader, adapterCalls, httpCalls, cancelledAt, cancelled, returned >>
    /\ UNCHANGED << fed, responseStatus, limiterVars, ledger, serviceVars >>

\* The generator ends by throwing e.
Throws(r, e) ==
    /\ pc' = [pc EXCEPT ![r] = "threw"]
    /\ error' = [error EXCEPT ![r] = e]

\* The generator ends normally.
Ends(r) ==
    /\ pc' = [pc EXCEPT ![r] = "done"]
    /\ UNCHANGED error

\* sendStreamingRequest without its validateConfig call: only the provider
\* lookup is left.
SendCheckSkipsValidation(c) ==
    IF c.provider \notin providers THEN "PROVIDER_NOT_FOUND" ELSE "ok"

\* sendStreamingRequest's check of the request before it registers anything
\* (lines 52-70): the code of the error it throws, or "ok".
SendCheck(c) ==
    IF c.provider \notin providers THEN "PROVIDER_NOT_FOUND"
    ELSE IF ProviderValidateConfig(c.provider, c) # "ok" THEN "INVALID_CONFIG"
    ELSE "ok"

\* The first next() of the iterator: lines 52-78, up to the adapter's await of
\* fetch() in makeRequest.
FirstPull(r) ==
    /\ pc[r] = "called"
    /\ LET check == SendCheck(request[r].config) IN
        IF check # "ok"
        THEN /\ Throws(r, Error(check, FALSE, NoStatus))
             /\ UNCHANGED << activeRequests, aborted, adapterCalls, httpCalls, cancelled >>
        ELSE /\ activeRequests' = Register(request[r].id, r)
             /\ cancelled' = [cancelled EXCEPT ![request[r].id] = FALSE]
             /\ aborted' = [aborted EXCEPT ![r] = FALSE]
             /\ adapterCalls' = [adapterCalls EXCEPT ![r] = @ + 1]
             /\ httpCalls' = [httpCalls EXCEPT ![r] = @ + 1]
             /\ pc' = [pc EXCEPT ![r] = "fetching"]
             /\ UNCHANGED error
    /\ lastCall' = NoCall
    /\ UNCHANGED << providers, request, created, got, nframes, reader, cancelledAt, returned >>
    /\ UNCHANGED << fed, responseStatus, limiterVars, ledger, serviceVars >>

\* response.status of what fetch() resolved with; NoStatus when it rejected.
ResponseStatus(o) ==
    IF o.t = "http" THEN o.status
    ELSE IF o.t \in {"ok", "nobody"} THEN 200
    ELSE NoStatus

\* fetch() settles (makeRequest, then the head of processSSEStream).  An error
\* leaves the adapter and the manager's loop; the manager's finally runs.
FetchSettles(r, o) ==
    /\ pc[r] = "fetching"
    /\ LET e == FetchError(request[r].config.provider, o) IN
        IF e # NoError
        THEN /\ Throws(r, e)
             /\ activeRequests' = Deregister(request[r].id)
             /\ UNCHANGED reader
        ELSE /\ pc' = [pc EXCEPT ![r] = "reading"]
             /\ reader' = [reader EXCEPT ![r] = "held"]
             /\ UNCHANGED << error, activeRequests >>
    /\ responseStatus' = [responseStatus EXCEPT ![r] = ResponseStatus(o)]
    /\ lastCall' = NoCall
    /\ UNCHANGED << providers, aborted, request, created, got, nframes, adapterCalls,
                    httpCalls, cancelledAt, cancelled, returned >>
    /\ UNCHANGED << fed, limiterVars, ledger, serviceVars >>

\* The chunk the manager hands the caller for a chunk c of the adapter
\* (lines 80-89).
Forwarded(r, c) == IF aborted[r] THEN Terminal ELSE c

\* reader.read() delivers a line.  A line that makes the adapter yield passes
\* through the manager's loop body to the caller; any other is consumed.
ReadLine(r) ==
    /\ pc[r] = "reading"
    /\ nframes[r] < MaxFrames
    /\ nframes' = [nframes EXCEPT ![r] = @ + 1]
    /\ \E f \in FramesOf(request[r].config.provider) :
        LET c == ProcessLine(request[r].config.provider, f) IN
        IF c = NoChunk
        THEN UNCHANGED << pc, got >>
        ELSE /\ got' = [got EXCEPT ![r] = Append(@, Forwarded(r, c))]
             /\ pc' = [pc EXCEPT ![r] = IF aborted[r] THEN "cancelled"
                                        ELSE IF AdapterReturnsAfter(c) THEN "last"
                                        ELSE "yielded"]
    /\ lastCall' = NoCall
    /\ UNCHANGED << providers, activeRequests, aborted, request, created, error, reader,
                    adapterCalls, httpCalls, cancelledAt, cancelled, returned >>
    /\ UNCHANGED << fed, responseStatus, limiterVars, ledger, serviceVars >>

\* reader.read() delivers a line, as ReadLine, and the line is recorded: the
\* lines are those of FramesOf and of the documented scenarios.
FeedLine(r) ==
    /\ pc[r] = "reading"
    /\ Len(fed[r]) < MaxFed
    /\ nframes' = [nframes EXCEPT ![r] = @ + 1]
    /\ \E f \in FramesOf(request[r].config.provider)
                 \cup ScenarioFrames(request[r].config.provider) :
        LET c == ProcessLine(request[r].config.provider, f) IN
        /\ fed' = [fed EXCEPT ![r] = Append(@, f)]
        /\ IF c = NoChunk
           THEN UNCHANGED << pc, got >>
           ELSE /\ got' = [got EXCEPT ![r] = Append(@, Forwarded(r, c))]
                /\ pc' = [pc EXCEPT ![r] = IF aborted[r] THEN "cancelled"
                                           ELSE IF AdapterReturnsAfter(c) THEN "last"
                                           ELSE "yielded"]
    /\ lastCall' = NoCall
    /\ UNCHANGED << providers, activeRequests, aborted, request, created, error, reader,
                    adapterCalls, httpCalls, cancelledAt, cancelled, returned >>
    /\ UNCHANGED << responseStatus, limiterVars, ledger, serviceVars >>

\* reader.read() reports the end of the body: the adapter's loop breaks, its
\* finally releases the reader, the manager's loop ends and its finally runs.
ReadEnd(r) ==
    /\ pc[r] = "reading"
    /\ Ends(r)
    /\ reader' = [reader EXCEPT ![r] = "released"]
    /\ activeRequests' = Deregister(request[r].id)
    /\ lastCall' = NoCall
    /\ UNCHANGED << providers, aborted, request, created, got, nframes, adapterCalls,
                    httpCalls, cancelledAt, cancelled, returned >>
    /\ UNCHANGED << fed, responseStatus, limiterVars, ledger, serviceVars >>

\* reader.read() rejects (the transport failed while the body was read).
ReadFails(r) ==
    /\ pc[r] = "reading"
    /\ Throws(r, ReadError)
    /\ reader' = [reader EXCEPT ![r] = "released"]
    /\ activeRequests' = Deregister(request[r].id)
    /\ lastCall' = NoCall
    /\ UNCHANGED << providers, aborted, request, created, got, nframes, adapterCalls,
                    httpCalls, cancelledAt, cancelled, returned >>
    /\ UNCHANGED << fed, responseStatus, limiterVars, ledger, serviceVars >>

\* The caller's next() after a chunk.
\*   "yielded": the adapter goes on to its next line, and awaits a read;
\*   "last": the adapter returns after its terminal chunk;
\*   "cancelled": the manager returns after the synthesized chunk, which
\*   closes the adapter's iterator.
\* In the last two the reader is released and the manager's finally runs.
Pull(r) ==
    /\ pc[r] \in {"yielded", "last", "cancelled"}
    /\ IF pc[r] = "yielded"
       THEN /\ pc' = [pc EXCEPT ![r] = "reading"]
            /\ UNCHANGED << error, reader, activeRequests >>
       ELSE /\ Ends(r)
            /\ reader' = [reader EXCEPT ![r] = "released"]
            /\ activeRequests' = Deregister(request[r].id)
    /\ lastCall' = NoCall
    /\ UNCHANGED << providers, aborted, request, created, got, nframes, adapterCalls,
                    httpCalls, cancelledAt, cancelled, returned >>
    /\ UNCHANGED << fed, responseStatus, limiterVars, ledger, serviceVars >>

\* A return() that ends the manager's generator and leaves the adapter's
\* suspended: the adapter's finally does not run.
ReturnKeepsReader(r) ==
    /\ pc[r] \in {"yielded", "last", "cancelled"}
    /\ Ends(r)
    /\ returned' = [returned EXCEPT ![r] = TRUE]
    /\ activeRequests' = Deregister(request[r].id)
    /\ lastCall' = NoCall
    /\ UNCHANGED << providers, aborted, request, created, got, nframes, adapterCalls,
                    httpCalls, cancelledAt, cancelled, reader >>
    /\ UNCHANGED << fed, responseStatus, limiterVars, ledger, serviceVars >>

\* The caller leaves its for-await loop after a chunk (break): the iterator's
\* return() runs the manager's finally, which closes the adapter's iterator.
Return(r) ==
    /\ pc[r] \in {"yielded", "last", "cancelled"}
    /\ Ends(r)
    /\ returned' = [returned EXCEPT ![r] = TRUE]
    /\ reader' = [reader EXCEPT ![r] = "released"]
    /\ activeRequests' = Deregister(request[r].id)
    /\ lastCall' = NoCall
    /\ UNCHANGED << providers, aborted, request, created, got, nframes, adapterCalls,
                    httpCalls, cancelledAt, cancelled >>
    /\ UNCHANGED << fed, responseStatus, limiterVars, ledger, serviceVars >>

\* cancelRequest that reports by the controller's signal instead of the
\* registry: an id whose request ended is still reported as cancelled.
CancelRequestBySignal(id) ==
    /\ IF \E r \in Req : request[r].id = id /\ adapterCalls[r] > 0
       THEN /\ Abort({ r \in Req : request[r].id = id })
            /\ activeRequests' = Deregister(id)
            /\ cancelled' = [cancelled EXCEPT ![id] = TRUE]
            /\ lastCall' = [op |-> "cancelRequest", id |-> id, ret |-> TRUE]
       ELSE /\ lastCall' = [op |-> "cancelRequest", id |-> id, ret |-> FALSE]
            /\ UNCHANGED << activeRequests, aborted, cancelledAt, cancelled >>
    /\ UNCHANGED << providers, pc, request, created, got, error, nframes, reader,
                    adapterCalls, httpCalls, returned >>
    /\ UNCHANGED << fed, responseStatus, limiterVars, ledger, serviceVars >>

\* cancelRequest(requestId)
CancelRequest(id) ==
    /\ IF activeRequests[id] # NoReq
       THEN /\ Abort({activeRequests[id]})
            /\ activeRequests' = Deregister(id)
            /\ cancelled' = [cancelled EXCEPT ![id] = TRUE]
            /\ lastCall' = [op |-> "cancelRequest", id |-> id, ret |-> TRUE]
       ELSE /\ lastCall' = [op |-> "cancelRequest", id |-> id, ret |-> FALSE]
            /\ UNCHANGED << activeRequests, aborted, cancelledAt, cancelled >>
    /\ UNCHANGED << providers, pc, request, created, got, error, nframes, reader,
                    adapterCalls, httpCalls, returned >>
    /\ UNCHANGED << fed, responseStatus, limiterVars, ledger, serviceVars >>

\* cancelAllRequests without its activeRequests.clear().
CancelAllRequestsKeepsRegistry ==
    /\ Abort({activeRequests[i] : i \in Ids} \ {NoReq})
    /\ lastCall' = [op |-> "cancelAllRequests"]
    /\ UNCHANGED << providers, activeRequests, pc, request, created, got, error,
                    nframes, reader, adapterCalls, httpCalls, cancelled, returned >>
    /\ UNCHANGED << fed, responseStatus, limiterVars, ledger, serviceVars >>

\* cancelAllRequests()
CancelAllRequests ==
    /\ Abort({activeRequests[i] : i \in Ids} \ {NoReq})
    /\ activeRequests' = [i \in Ids |-> NoReq]
    /\ lastCall' = [op |-> "cancelAllRequests"]
    /\ UNCHANGED << providers, pc, request, created, got, error, nframes, reader,
                    adapterCalls, httpCalls, cancelled, returned >>
    /\ UNCHANGED << fed, responseStatus, limiterVars, ledger, serviceVars >>

\* What one logical request can do.
RequestStep(r) ==
    \/ \E c \in Configs, i \in Ids : CreateRequest(r, c, i)
    \/ SendStreamingRequest(r)
    \/ FirstPull(r)
    \/ \E o \in FetchOutcomes : FetchSettles(r, o)
    \/ ReadLine(r)
    \/ ReadEnd(r)
    \/ ReadFails(r)
    \/ Pull(r)
    \/ Return(r)

\* A manager with the OpenAI adapter registered and two requests in flight.
InitManager == Init({"openai"})

NextManager ==
    \/ \E r \in Req : RequestStep(r)
    \/ \E i \in Ids : CancelRequest(i)
    \/ CancelAllRequests

SpecManager == InitManager /\ [][NextManager]_vars

\* A manager with the OpenAI and Anthropic adapters registered and one request.
InitStream == Init({"openai", "anthropic"})

NextStream ==
    \/ RequestStep(1)
    \/ \E i \in Ids : CancelRequest(i)
    \/ CancelAllRequests

SpecStream == InitStream /\ [][NextStream]_vars

\* The same, on a transport that may stall: fetch() always settles, by the
\* response, a failure or makeRequest's timer (lines 310-327 of
\* base-llm-provider.ts), and the caller keeps pulling; nothing makes
\* reader.read() settle.
SpecStalled ==
    /\ SpecStream
    /\ WF_vars(\E o \in FetchOutcomes : FetchSettles(1, o))
    /\ WF_vars(FirstPull(1))
    /\ WF_vars(Pull(1))

\* One request to either adapter, its body's lines recorded, nobody cancelling.
InitAdapter == Init({"openai", "anthropic"})

NextAdapter ==
    \/ \E c \in Configs, i \in Ids : CreateRequest(1, c, i)
    \/ SendStreamingRequest(1)
    \/ FirstPull(1)
    \/ \E o \in FetchOutcomes : FetchSettles(1, o)
    \/ FeedLine(1)
    \/ ReadEnd(1)
    \/ ReadFails(1)
    \/ Pull(1)
    \/ Return(1)

SpecAdapter == InitAdapter /\ [][NextAdapter]_vars

----------------------------------------------------------------------------
(* RateLimiter *)

\* The limiter's configuration: DEFAULT_RATE_LIMIT_CONFIG merged with the
\* constructor's overrides.  The two ceilings are overridden with small ones.
maxRequestsPerMinute == 3
maxConcurrentRequests == 2
backoffMultiplier == 2
maxBackoffMs == 30000

\* The window of resetIfNeeded, and calculateBackoffTime's baseBackoff.
WindowMs == 60000
BaseBackoffMs == 1000

\* How far the clock moves between two events, and where the model stops it.
TickSteps == {10000, 60000}
MaxTime == 130000

\* handleRateLimitResponse's argument, in seconds; NoRetryAfter for undefined.
NoRetryAfter == -1
RetryAfters == {NoRetryAfter, 0, 20}

Min(a, b) == IF a < b THEN a ELSE b

RECURSIVE Pow(_, _)
Pow(b, e) == IF e = 0 THEN 1 ELSE b * Pow(b, e - 1)

\* resetIfNeeded's test at time t.
WindowElapsed(st, t) == t - st.lastResetTime >= WindowMs

\* resetIfNeeded at time t: the state it leaves.
ResetIfNeeded(st, t) ==
    IF WindowElapsed(st, t)
    THEN [st EXCEPT !.requestCount = 0, !.lastResetTime = t]
    ELSE st

\* resetIfNeeded at time `now`: the timer it leaves scheduled.
TimerAfterReset ==
    IF WindowElapsed(state, now) THEN now + WindowMs ELSE resetTimer

\* isInBackoff that never sees a backoff.
IsInBackoffNever(st, t) == FALSE

\* isInBackoff at time t
IsInBackoff(st, t) == t < st.backoffUntil

\* canMakeRequest whose rate check lets the count pass the ceiling by one.
CanMakeOneMore(st, t) ==
    /\ ~IsInBackoff(st, t)
    /\ ~(st.activeRequests >= maxConcurrentRequests)
    /\ ~(st.requestCount > maxRequestsPerMinute)

\* canMakeRequest without its check of the active count.
CanMakeWhileFull(st, t) ==
    /\ ~IsInBackoff(st, t)
    /\ ~(st.requestCount >= maxRequestsPerMinute)

\* canMakeRequest's three checks, on the state resetIfNeeded left.
CanMake(st, t) ==
    /\ ~IsInBackoff(st, t)
    /\ ~(st.activeRequests >= maxConcurrentRequests)
    /\ ~(st.requestCount >= maxRequestsPerMinute)

\* acquireRequest that counts the request but not the active one.
AcquiredCountOnly(st) == [st EXCEPT !.requestCount = @ + 1]

\* acquireRequest's update of a state that can make a request.
Acquired(st) ==
    [st EXCEPT !.requestCount = @ + 1, !.activeRequests = @ + 1]

\* calculateBackoffTime
CalculateBackoffTime(st) ==
    Min(BaseBackoffMs * Pow(backoffMultiplier, st.requestCount), maxBackoffMs)

\* Successful acquireRequest calls of the window after a limiter call that
\* left the state st (a window starts when lastResetTime is set).
GrantedAfter(st, more) ==
    (IF st.lastResetTime # state.lastResetTime THEN 0 ELSE granted) + more

\* canMakeRequest()
CanMakeRequest ==
    /\ state' = ResetIfNeeded(state, now)
    /\ resetTimer' = TimerAfterReset
    /\ lastLimiterCall' = [op |-> "canMakeRequest", ret |-> CanMake(state', now),
                           reset |-> WindowElapsed(state, now)]
    /\ granted' = GrantedAfter(state', 0)
    /\ UNCHANGED now
    /\ UNCHANGED << lastBackoffMs, waiter >>
    /\ UNCHANGED << managerVars, ledger, serviceVars >>

\* acquireRequest(), the ledger apart.
Acquire ==
    /\ LET st == ResetIfNeeded(state, now) IN
        /\ state' = IF CanMake(st, now) THEN Acquired(st) ELSE st
        /\ lastLimiterCall' = [op |-> "acquireRequest", ret |-> CanMake(st, now),
                               reset |-> WindowElapsed(state, now)]
        /\ granted' = GrantedAfter(st, IF CanMake(st, now) THEN 1 ELSE 0)
    /\ resetTimer' = TimerAfterReset
    /\ UNCHANGED now
    /\ UNCHANGED << lastBackoffMs, waiter >>
    /\ UNCHANGED << managerVars, serviceVars >>

\* acquireRequest()
AcquireRequest == Acquire /\ UNCHANGED ledger

\* The grants of a ledger that are less than 60000 ms old at time t.
RecentGrants(grants, t) == SelectSeq(grants, LAMBDA g : t - g < 60000)

\* acquireRequest(), with a grant entered in the ledger.
AcquireRequestEntered ==
    /\ Acquire
    /\ ledger' = IF lastLimiterCall'.ret
                 THEN [grants |-> Append(RecentGrants(ledger.grants, now), now),
                       held |-> ledger.held + 1]
                 ELSE ledger

\* releaseRequest without its test of the counter.
ReleaseRequestNoFloor ==
    /\ state' = [state EXCEPT !.activeRequests = @ - 1]
    /\ lastLimiterCall' = [op |-> "releaseRequest", active |-> state.activeRequests]
    /\ UNCHANGED << resetTimer, now, granted >>
    /\ UNCHANGED << lastBackoffMs, waiter >>
    /\ UNCHANGED << managerVars, ledger, serviceVars >>

\* releaseRequest(), the ledger apart; the call notes the active count it found.
Release ==
    /\ state' = IF state.activeRequests > 0
                THEN [state EXCEPT !.activeRequests = @ - 1]
                ELSE state
    /\ lastLimiterCall' = [op |-> "releaseRequest", active |-> state.activeRequests]
    /\ UNCHANGED << resetTimer, now, granted >>
    /\ UNCHANGED << lastBackoffMs, waiter >>
    /\ UNCHANGED << managerVars, serviceVars >>

\* releaseRequest()
ReleaseRequest == Release /\ UNCHANGED ledger

\* releaseRequest() by a caller that holds a slot, entered in the ledger.
ReleaseRequestEntered ==
    /\ ledger.held > 0
    /\ Release
    /\ ledger' = [ledger EXCEPT !.held = @ - 1]

\* handleRateLimitResponse(retryAfterSeconds): a retry-after of 0 is falsy,
\* like undefined.
HandleRateLimitResponse(retryAfterSeconds) ==
    /\ LET backoffMs == IF retryAfterSeconds \notin {NoRetryAfter, 0}
                        THEN retryAfterSeconds * 1000
                        ELSE CalculateBackoffTime(state) IN
        /\ state' = [state EXCEPT !.backoffUntil = now + backoffMs]
        /\ lastLimiterCall' = [op |-> "handleRateLimitResponse",
                               retryAfter |-> retryAfterSeconds,
                               backoffMs |-> backoffMs]
        /\ lastBackoffMs' = IF retryAfterSeconds = NoRetryAfter THEN backoffMs ELSE 0
    /\ UNCHANGED << resetTimer, now, granted, waiter >>
    /\ UNCHANGED << managerVars, ledger, serviceVars >>

\* handleSuccessfulRequest()
HandleSuccessfulRequest ==
    /\ state' = [state EXCEPT !.backoffUntil = 0]
    /\ lastLimiterCall' = [op |-> "handleSuccessfulRequest"]
    /\ lastBackoffMs' = 0
    /\ UNCHANGED << resetTimer, now, granted, waiter >>
    /\ UNCHANGED << managerVars, ledger, serviceVars >>

\* reset()
Reset ==
    /\ state' = [requestCount |-> 0, lastResetTime |-> now,
                 activeRequests |-> 0, backoffUntil |-> 0]
    /\ resetTimer' = NoTimer
    /\ lastLimiterCall' = [op |-> "reset"]
    /\ granted' = 0
    /\ lastBackoffMs' = 0
    /\ UNCHANGED << now, waiter >>
    /\ UNCHANGED << managerVars, ledger, serviceVars >>

\* The timer resetIfNeeded scheduled fires, at or after its time: its
\* callback is resetIfNeeded.
ResetTimerFires ==
    /\ resetTimer # NoTimer
    /\ now >= resetTimer
    /\ state' = ResetIfNeeded(state, now)
    /\ resetTimer' = IF WindowElapsed(state, now) THEN now + WindowMs ELSE NoTimer
    /\ lastLimiterCall' = NoCall
    /\ granted' = GrantedAfter(state', 0)
    /\ UNCHANGED now
    /\ UNCHANGED << lastBackoffMs, waiter >>
    /\ UNCHANGED << managerVars, ledger, serviceVars >>

\* Time passes.
Tick(d) ==
    /\ now + d <= MaxTime
    /\ now' = now + d
    /\ lastLimiterCall' = NoCall
    /\ UNCHANGED << state, resetTimer, granted >>
    /\ UNCHANGED << lastBackoffMs, waiter >>
    /\ UNCHANGED << managerVars, ledger, serviceVars >>

InitLimiter == Init({})

NextLimiter ==
    \/ CanMakeRequest
    \/ AcquireRequest
    \/ ReleaseRequest
    \/ \E s \in RetryAfters : HandleRateLimitResponse(s)
    \/ HandleSuccessfulRequest
    \/ Reset
    \/ ResetTimerFires
    \/ \E d \in TickSteps : Tick(d)

SpecLimiter == InitLimiter /\ [][NextLimiter]_vars

----------------------------------------------------------------------------
(* RateLimiter.waitForAvailability *)

\* waitForAvailability's argument, the clock's steps while a caller waits and
\* where the clock stops.
Timeouts == {0, 1000}
WaitTickSteps == {500, 1000}
MaxWaitTime == 3000

\* The wait at the concurrency ceiling, and the cap of one sleep.
ConcurrencyWaitMs == 100
MaxSleepMs == 1000

\* calculateWaitTime at time t
CalculateWaitTime(st, t) ==
    IF IsInBackoff(st, t) THEN st.backoffUntil - t
    ELSE IF st.requestCount >= maxRequestsPerMinute
         THEN (st.lastResetTime + WindowMs) - t
    ELSE IF st.activeRequests >= maxConcurrentRequests THEN ConcurrencyWaitMs
    ELSE 0

\* waitForAvailability that sleeps the whole calculated wait.
SleepMsUncapped(st, t) == CalculateWaitTime(st, t)

\* The argument of sleep(): Math.min(waitTime, 1000)
SleepMs(st, t) == Min(CalculateWaitTime(st, t), MaxSleepMs)

\* One turn of waitForAvailability's loop for a caller that started at
\* startTime: canMakeRequest(), then return true, return false or sleep.
WaitTurn(startTime, timeoutMs) ==
    LET st == ResetIfNeeded(state, now) IN
    /\ state' = st
    /\ resetTimer' = TimerAfterReset
    /\ lastLimiterCall' = [op |-> "canMakeRequest", ret |-> CanMake(st, now),
                           reset |-> WindowElapsed(state, now)]
    /\ granted' = GrantedAfter(st, 0)
    /\ waiter' =
         IF CanMake(st, now)
         THEN [pc |-> "returned", startTime |-> startTime, timeoutMs |-> timeoutMs,
               sleepMs |-> 0, wakeAt |-> 0, ret |-> TRUE]
         ELSE IF now - startTime > timeoutMs
         THEN [pc |-> "returned", startTime |-> startTime, timeoutMs |-> timeoutMs,
               sleepMs |-> 0, wakeAt |-> 0, ret |-> FALSE]
         ELSE [pc |-> "sleeping", startTime |-> startTime, timeoutMs |-> timeoutMs,
               sleepMs |-> SleepMs(st, now), wakeAt |-> now + SleepMs(st, now),
               ret |-> FALSE]
    /\ UNCHANGED << now, lastBackoffMs >>
    /\ UNCHANGED << managerVars, ledger, serviceVars >>

\* waitForAvailability(timeoutMs) is called: the loop's first turn.  The
\* call is made while the clock can still reach the end of the wait.
WaitForAvailability(timeoutMs) ==
    /\ waiter.pc \in {"idle", "returned"}
    /\ now + timeoutMs + MaxSleepMs <= MaxWaitTime
    /\ WaitTurn(now, timeoutMs)

\* The sleep's timer fires, at or after its time: the loop's next turn.
WaitWakes ==
    /\ waiter.pc = "sleeping"
    /\ now >= waiter.wakeAt
    /\ WaitTurn(waiter.startTime, waiter.timeoutMs)

\* Time passes while a caller may be waiting.
WaitTick == \E d \in WaitTickSteps : now + d <= MaxWaitTime /\ Tick(d)

NextWait ==
    \/ \E t \in Timeouts : WaitForAvailability(t)
    \/ WaitWakes
    \/ WaitTick
    \/ AcquireRequest
    \/ ReleaseRequest
    \/ HandleRateLimitResponse(NoRetryAfter)
    \/ HandleSuccessfulRequest

SpecWait == InitLimiter /\ [][NextWait]_vars

\* The host runs a timer that is due, and its clock moves.
SpecWaitFair == SpecWait /\ WF_vars(WaitWakes) /\ WF_vars(WaitTick)

----------------------------------------------------------------------------
(* RateLimiter with a ledger of the slots granted and released *)


NextLedger ==
    \/ CanMakeRequest
    \/ \E t \in Timeouts : WaitForAvailability(t)
    \/ WaitWakes
    \/ AcquireRequestEntered
    \/ ReleaseRequestEntered
    \/ ResetTimerFires
    \/ \E d \in TickSteps : Tick(d)

SpecLedger == InitLimiter /\ [][NextLedger]_vars

----------------------------------------------------------------------------
(* BaseLLMProvider.getAvailableModels and its cache *)

\* private readonly cacheTimeout = 5 * 60 * 1000
cacheTimeout == 300000

\* What fetchAvailableModels resolves with, and the provider's static list.
FetchedLists == {"list1", "list2"}
FallbackModels == "fallback"
ModelFetchOutcomes == FetchedLists \cup {"fails"}

ModelTickSteps == {100000, 300000}
MaxModelTime == 700000

\* A result of getAvailableModels; fetched notes whether the call fetched and
\* how that went: "no", "ok", "failed".
ModelsResult(list, isCached, timestamp, fetched) ==
    [models |-> list, cached |-> isCached, timestamp |-> timestamp,
     fetched |-> fetched]

\* cached && Date.now() - cached.timestamp < this.cacheTimeout
IsFresh(entry, t) == entry # NoEntry /\ t - entry.timestamp < cacheTimeout

\* A catch block that always answers with the static list.
OnFetchFailureFallbackOnly(cached, t) ==
    ModelsResult(FallbackModels, FALSE, t, "failed")

\* The catch block: the expired entry if there is one, else the static list.
OnFetchFailure(cached, t) ==
    IF cached # NoEntry
    THEN ModelsResult(cached.models, TRUE, cached.timestamp, "failed")
    ELSE ModelsResult(FallbackModels, FALSE, t, "failed")

\* getAvailableModels(config), up to its await of fetchAvailableModels: a
\* fresh entry is returned at once.
GetAvailableModels(k) ==
    /\ models.pc = "idle"
    /\ LET cached == models.cache[k] IN
        models' = IF IsFresh(cached, now)
                  THEN [models EXCEPT !.key = k, !.cached = cached,
                            !.result = ModelsResult(cached.models, TRUE,
                                                    cached.timestamp, "no")]
                  ELSE [models EXCEPT !.pc = "fetching", !.key = k,
                            !.cached = cached, !.result = NoResult]
    /\ UNCHANGED << managerVars, limiterVars, ledger, storage, segments >>

\* fetchAvailableModels settles: the list replaces the entry, or the catch
\* block answers.
ModelsFetchSettles(o) ==
    /\ models.pc = "fetching"
    /\ models' = IF o \in FetchedLists
                 THEN [models EXCEPT !.pc = "idle",
                           !.cache[models.key] = [models |-> o, timestamp |-> now],
                           !.result = ModelsResult(o, FALSE, now, "ok")]
                 ELSE [models EXCEPT !.pc = "idle",
                           !.result = OnFetchFailure(models.cached, now)]
    /\ UNCHANGED << managerVars, limiterVars, ledger, storage, segments >>

\* clearModelCache()
ClearModelCache ==
    /\ models' = [models EXCEPT !.cache = [k \in CacheKeys |-> NoEntry]]
    /\ UNCHANGED << managerVars, limiterVars, ledger, storage, segments >>

\* Time passes for the cache.
ModelTick(d) ==
    /\ now + d <= MaxModelTime
    /\ now' = now + d
    /\ UNCHANGED << state, resetTimer, lastLimiterCall, granted, lastBackoffMs, waiter >>
    /\ UNCHANGED << managerVars, ledger, serviceVars >>

NextModels ==
    \/ \E k \in CacheKeys : GetAvailableModels(k)
    \/ \E o \in ModelFetchOutcomes : ModelsFetchSettles(o)
    \/ ClearModelCache
    \/ \E d \in ModelTickSteps : ModelTick(d)

SpecModels == Init({}) /\ [][NextModels]_vars


----------------------------------------------------------------------------
(* EnhancedStorageService *)

WebStorages == {"session", "local"}
ApiKeys == {"sk-1", "sk-2"}
BlankKeys == {"", " "}

\* Every value StoragePreferenceSchema accepts, and one it refuses.
Preferences == [type : {"none", "session", "local"}, acknowledgedRisks : BOOLEAN]
InvalidPreference == [type |-> "cloud", acknowledgedRisks |-> TRUE]
DefaultPreference == [type |-> "session", acknowledgedRisks |-> FALSE]

\* In one call, the web storages that throw on every operation on a key
\* (broken) and those whose setItem throws (full).  The item under
\* PREFERENCE_KEY is always readable and writable.
Failures == SUBSET WebStorages

\* getStoragePreference()
GetStoragePreference(st) ==
    IF st.preference = NoPreference THEN DefaultPreference ELSE st.preference

\* A saveAPIKey that leaves the other tiers as they are.
ClearAPIKeyFromNoStorageType(st, p, broken) == st

\* clearAPIKeyFromAllStorageTypes(provider): a removeItem that throws is
\* caught and removes nothing.
ClearAPIKeyFromAllStorageTypes(st, p, broken) ==
    [st EXCEPT !.memory[p] = NoKey,
               !.session[p] = IF "session" \in broken THEN @ ELSE NoKey,
               !.local[p] = IF "local" \in broken THEN @ ELSE NoKey]

\* clearSessionStorage(), clearLocalStorage(): every key with API_KEY_PREFIX.
ClearSessionStorage(st, broken) ==
    IF "session" \in broken THEN st
    ELSE [st EXCEPT !.session = [p \in StorageProviders |-> NoKey]]

ClearLocalStorage(st, broken) ==
    IF "local" \in broken THEN st
    ELSE [st EXCEPT !.local = [p \in StorageProviders |-> NoKey]]

\* The switch of saveAPIKey, for a preference it does not refuse: the tier of
\* the preference, or the next one when setItem throws.
Stored(st, pref, p, key, cannot) ==
    CASE pref.type = "none" -> [st EXCEPT !.memory[p] = key]
      [] pref.type = "session" ->
            IF "session" \in cannot
            THEN [st EXCEPT !.memory[p] = key]
            ELSE [st EXCEPT !.session[p] = key]
      [] pref.type = "local" ->
            IF "local" \notin cannot THEN [st EXCEPT !.local[p] = key]
            ELSE IF "session" \notin cannot THEN [st EXCEPT !.session[p] = key]
            ELSE [st EXCEPT !.memory[p] = key]

\* The switch of getAPIKey: the tier of the preference, the next one only when
\* getItem throws.
Read(st, pref, p, broken) ==
    CASE pref.type = "none" -> st.memory[p]
      [] pref.type = "session" ->
            IF "session" \in broken THEN st.memory[p] ELSE st.session[p]
      [] pref.type = "local" ->
            IF "local" \notin broken THEN st.local[p]
            ELSE IF "session" \notin broken THEN st.session[p]
            ELSE st.memory[p]

\* The first storage operation of the preference's tier threw.
TierThrew(pref, cannot) ==
    \/ pref.type = "session" /\ "session" \in cannot
    \/ pref.type = "local" /\ "local" \in cannot

\* saveAPIKey(provider, key)
SaveAPIKey(p, key, broken, full) ==
    /\ LET pref == GetStoragePreference(storage)
           cleared == ClearAPIKeyFromAllStorageTypes(storage, p, broken)
           call == [op |-> "saveAPIKey", provider |-> p, key |-> key] IN
        storage' =
            IF key \in BlankKeys
            THEN [storage EXCEPT !.last = call @@ [threw |-> TRUE]]
            ELSE IF pref.type = "local" /\ ~pref.acknowledgedRisks
            THEN [cleared EXCEPT !.last = call @@ [threw |-> TRUE],
                                 !.failed = @ \/ broken # {}]
            ELSE [Stored(cleared, pref, p, key, broken \cup full)
                    EXCEPT !.last = call @@ [threw |-> FALSE],
                           !.failed = @ \/ broken # {}
                                        \/ TierThrew(pref, broken \cup full)]
    /\ UNCHANGED << managerVars, limiterVars, ledger, models, segments >>

\* getAPIKey(provider)
GetAPIKey(p, broken) ==
    /\ LET pref == GetStoragePreference(storage) IN
        storage' = [storage EXCEPT
                      !.last = [op |-> "getAPIKey", provider |-> p,
                                ret |-> Read(storage, pref, p, broken)],
                      !.failed = @ \/ TierThrew(pref, broken)]
    /\ UNCHANGED << managerVars, limiterVars, ledger, models, segments >>

\* clearAPIKey(provider)
ClearAPIKey(p, broken) ==
    /\ storage' = [ClearAPIKeyFromAllStorageTypes(storage, p, broken)
                     EXCEPT !.last = [op |-> "clearAPIKey", provider |-> p],
                            !.failed = @ \/ broken # {}]
    /\ UNCHANGED << managerVars, limiterVars, ledger, models, segments >>

\* clearAllAPIKeys()
ClearAllAPIKeys(broken) ==
    /\ LET st == [storage EXCEPT !.memory = [p \in StorageProviders |-> NoKey]] IN
        storage' = [ClearLocalStorage(ClearSessionStorage(st, broken), broken)
                      EXCEPT !.last = [op |-> "clearAllAPIKeys"],
                             !.failed = @ \/ broken # {}]
    /\ UNCHANGED << managerVars, limiterVars, ledger, models, segments >>

\* setStoragePreference(preference)
SetStoragePreference(preference, broken) ==
    /\ LET call == [op |-> "setStoragePreference", type |-> preference.type]
           st == [storage EXCEPT !.preference = preference] IN
        storage' =
            IF preference \notin Preferences
            THEN [storage EXCEPT !.last = call @@ [threw |-> TRUE]]
            ELSE IF preference.type = "none"
            THEN [ClearLocalStorage(ClearSessionStorage(st, broken), broken)
                    EXCEPT !.last = call @@ [threw |-> FALSE],
                           !.failed = @ \/ broken # {}]
            ELSE IF preference.type = "session"
            THEN [ClearLocalStorage(st, broken)
                    EXCEPT !.last = call @@ [threw |-> FALSE],
                           !.failed = @ \/ "local" \in broken]
            ELSE [st EXCEPT !.last = call @@ [threw |-> FALSE]]
    /\ UNCHANGED << managerVars, limiterVars, ledger, models, segments >>

\* The page is loaded again: a new service, whose inMemoryKeys is empty.
Reload ==
    /\ storage' = [storage EXCEPT !.memory = [p \in StorageProviders |-> NoKey],
                                  !.last = NoCall]
    /\ UNCHANGED << managerVars, limiterVars, ledger, models, segments >>

NextStorage ==
    \/ \E p \in StorageProviders, key \in ApiKeys \cup BlankKeys,
          broken \in Failures, full \in Failures : SaveAPIKey(p, key, broken, full)
    \/ \E p \in StorageProviders, broken \in Failures : GetAPIKey(p, broken)
    \/ \E p \in StorageProviders, broken \in Failures : ClearAPIKey(p, broken)
    \/ \E broken \in Failures : ClearAllAPIKeys(broken)
    \/ \E preference \in Preferences \cup {InvalidPreference}, broken \in Failures :
          SetStoragePreference(preference, broken)
    \/ Reload

SpecStorage == Init({}) /\ [][NextStorage]_vars


----------------------------------------------------------------------------
(* processSSEStream: from the segments of the body to the chunks *)

\* The bytes of a body: "p" is the prefix 'data: ', "c" a character of a
\* payload, "!" the payload '[DONE]', "nl" the line feed, "e1" "e2" the two
\* bytes of one character of a payload.
Bytes == {"p", "c", "!", "nl", "e1", "e2"}
MaxBody == 4

\* decoder.decode(value, {stream: true}), byte by byte: an incomplete
\* character is kept for the next call, a malformed one becomes "?" (U+FFFD).
RECURSIVE DecodeFrom(_, _, _)
DecodeFrom(chars, pending, bytes) ==
    IF bytes = << >> THEN [chars |-> chars, pending |-> pending]
    ELSE LET b == Head(bytes) IN
         IF pending # << >>
         THEN IF b = "e2"
              THEN DecodeFrom(Append(chars, "e"), << >>, Tail(bytes))
              ELSE DecodeFrom(Append(chars, "?"), << >>, bytes)
         ELSE IF b = "e1" THEN DecodeFrom(chars, << b >>, Tail(bytes))
         ELSE IF b = "e2" THEN DecodeFrom(Append(chars, "?"), << >>, Tail(bytes))
         ELSE DecodeFrom(Append(chars, b), << >>, Tail(bytes))

\* decoder.decode(value) without the stream option: what is incomplete at the
\* end of the segment is not kept.
DecodeNoStream(pending, bytes) ==
    LET d == DecodeFrom(<< >>, << >>, bytes) IN
    [chars |-> IF d.pending # << >> THEN Append(d.chars, "?") ELSE d.chars,
     pending |-> << >>]

\* decoder.decode(value, {stream: true})
Decode(pending, bytes) == DecodeFrom(<< >>, pending, bytes)

\* buffer.split('\n'), then lines.pop(): the complete lines and the rest.
RECURSIVE SplitLines(_, _, _)
SplitLines(lines, line, chars) ==
    IF chars = << >> THEN [lines |-> lines, rest |-> line]
    ELSE IF Head(chars) = "nl"
         THEN SplitLines(Append(lines, line), << >>, Tail(chars))
         ELSE SplitLines(lines, Append(line, Head(chars)), Tail(chars))

\* The chunk of the end of the stream, its content a sequence of characters.
DoneChunk == Chunk(<< >>, TRUE)

\* What one line yields: nothing without the prefix, the end for '[DONE]',
\* else what parseStreamChunk makes of the payload - a content chunk, or null
\* for a payload that is empty or does not parse.
LineChunk(line) ==
    IF line = << >> \/ Head(line) # "p" THEN NoChunk
    ELSE IF Tail(line) = << "!" >> THEN DoneChunk
    ELSE IF Tail(line) # << >> /\ \A i \in 1..Len(Tail(line)) : Tail(line)[i] \in {"c", "e"}
         THEN Chunk(Tail(line), FALSE)
         ELSE NoChunk

\* The for loop over the lines: it yields until a chunk is the end.
RECURSIVE ProcessLines(_, _)
ProcessLines(out, lines) ==
    IF lines = << >> THEN [out |-> out, done |-> FALSE]
    ELSE LET c == LineChunk(Head(lines)) IN
         IF c = NoChunk THEN ProcessLines(out, Tail(lines))
         ELSE IF c.isComplete THEN [out |-> Append(out, c), done |-> TRUE]
         ELSE ProcessLines(Append(out, c), Tail(lines))

\* One turn of the while loop on a segment: decode, split, process.
TookSegment(rd, bytes) ==
    LET d == Decode(rd.pending, bytes)
        sp == SplitLines(<< >>, << >>, rd.buffer \o d.chars)
        pr == ProcessLines(rd.out, sp.lines) IN
    [read |-> rd.read + Len(bytes), pending |-> d.pending, buffer |-> sp.rest,
     out |-> pr.out, done |-> pr.done]

\* The transport receives one more byte of the body.
BodyByte(b) ==
    /\ ~segments.ended
    /\ Len(segments.body) < MaxBody
    /\ segments' = [segments EXCEPT !.body = Append(@, b)]
    /\ UNCHANGED << managerVars, limiterVars, ledger, models, storage >>

\* The body ends.
BodyEnds ==
    /\ ~segments.ended
    /\ segments' = [segments EXCEPT !.ended = TRUE]
    /\ UNCHANGED << managerVars, limiterVars, ledger, models, storage >>

\* reader.read() resolves with the next n bytes.
SegmentRead(s, n) ==
    /\ ~segments.readers[s].done
    /\ n \in 1..(Len(segments.body) - segments.readers[s].read)
    /\ LET rd == segments.readers[s] IN
        segments' = [segments EXCEPT !.readers[s] =
            TookSegment(rd, SubSeq(segments.body, rd.read + 1, rd.read + n))]
    /\ UNCHANGED << managerVars, limiterVars, ledger, models, storage >>

\* reader.read() resolves with done: the loop breaks, whatever the buffer holds.
SegmentsEnd(s) ==
    /\ ~segments.readers[s].done
    /\ segments.ended
    /\ segments.readers[s].read = Len(segments.body)
    /\ segments' = [segments EXCEPT !.readers[s].done = TRUE]
    /\ UNCHANGED << managerVars, limiterVars, ledger, models, storage >>

NextSegments ==
    \/ \E b \in Bytes : BodyByte(b)
    \/ BodyEnds
    \/ \E s \in SegReaders, n \in 1..MaxBody : SegmentRead(s, n)
    \/ \E s \in SegReaders : SegmentsEnd(s)

SpecSegments == Init({}) /\ [][NextSegments]_vars


----------------------------------------------------------------------------
(* Properties of the Request Manager and the adapters *)

\* Terminal chunks among the chunks the caller got.
Terminals(r) == Cardinality({ k \in 1..Len(got[r]) : got[r][k].isComplete })

\* The iterator of r has finished, and not because the caller abandoned it.
Finished(r) == pc[r] \in {"done", "threw"} /\ ~returned[r]

\* The request's config passes the manager's validation.
Accepted(r) == request[r] # NoRequest /\ SendCheck(request[r].config) = "ok"

\* C1: for a request whose config validateConfig accepts, the chunks of
\* sendStreamingRequest hold exactly one terminal chunk when the iterator ends
\* normally and none when it throws, and never more than one.
C1_OneTerminalOrThrow ==
    \A r \in Req :
        Accepted(r) =>
            /\ Terminals(r) <= 1
            /\ Finished(r) /\ pc[r] = "done" => Terminals(r) = 1
            /\ pc[r] = "threw" => Terminals(r) = 0

\* The request was cancelled mid-stream: after its first chunk and before a
\* terminal chunk.
CancelledMidStream(r) ==
    /\ cancelledAt[r] >= 1
    /\ \A k \in 1..cancelledAt[r] : ~got[r][k].isComplete

\* C2: after cancelRequest(id) mid-stream the caller's iterator yields exactly
\* one more chunk, {content: "", isComplete: true}, and ends, whatever the
\* adapter does afterwards.
C2_CancelYieldsOneTerminal ==
    \A r \in Req :
        CancelledMidStream(r) =>
            /\ Len(got[r]) <= cancelledAt[r] + 1
            /\ Len(got[r]) = cancelledAt[r] + 1 => got[r][Len(got[r])] = Terminal
            /\ Finished(r) => pc[r] = "done" /\ Len(got[r]) = cancelledAt[r] + 1

\* C3: once a request's token was signalled (cancelRequest returned true, or
\* cancelAllRequests ran while it was registered) its iterator yields no
\* adapter-produced chunk and surfaces no error of the adapter.
C3_ResultDiscardedAfterCancel ==
    \A r \in Req :
        aborted[r] =>
            /\ \A k \in (cancelledAt[r] + 1)..Len(got[r]) : got[r][k] = Terminal
            /\ pc[r] # "threw"

\* The request registered its cancellation token.
Registered(r) == adapterCalls[r] > 0

\* C4 as stated: an id is in the registry exactly while a request with that
\* id has registered and has neither delivered its terminal chunk, thrown,
\* nor been cancelled.
C4_RegistryIffInFlight ==
    \A i \in Ids :
        activeRequests[i] # NoReq <=>
            \E r \in Req : /\ request[r].id = i
                           /\ pc[r] \in {"fetching", "reading", "yielded"}
                           /\ ~aborted[r]

\* The iterator of r has started and has not finished.
Streaming(r) == pc[r] \in {"fetching", "reading", "yielded", "last"}

\* C4, amended: a registry entry belongs to a request of that id whose
\* iterator has started and not finished and which was not cancelled; and such
\* a request is registered when no other request registered under its id.  The
\* entry goes in the step of the error or of the cancellation; after the
\* terminal chunk it stays until the iterator is resumed or closed.
C4_RegistryUntilIteratorEnds ==
    /\ \A i \in Ids :
        activeRequests[i] # NoReq =>
            /\ request[activeRequests[i]].id = i
            /\ Streaming(activeRequests[i])
            /\ ~aborted[activeRequests[i]]
    /\ \A r \in Req :
        ( /\ Streaming(r) /\ ~aborted[r]
          /\ \A q \in Req \ {r} : Registered(q) => request[q].id # request[r].id )
        => activeRequests[request[r].id] = r

\* The terminal chunk was delivered and the request is still registered.
C4_Witness ==
    \E r \in Req : pc[r] = "last" /\ activeRequests[request[r].id] = r

\* C5: cancelRequest(id) returns whether an entry was found; when it returns
\* true it signals the token and removes the entry; a later call for the same
\* id, with no request registered under it in between, and a call for an id
\* never registered, return false and change nothing.
C5_CancelRequestIdempotent ==
    [][ lastCall'.op = "cancelRequest" =>
          LET i == lastCall'.id IN
          /\ lastCall'.ret = (activeRequests[i] # NoReq)
          /\ lastCall'.ret =>
                /\ aborted'[activeRequests[i]]
                /\ activeRequests' = [activeRequests EXCEPT ![i] = NoReq]
          /\ ~lastCall'.ret =>
                UNCHANGED << activeRequests, aborted, pc, got, error, reader >>
          /\ cancelled[i] => ~lastCall'.ret
          /\ (\A r \in Req : Registered(r) => request[r].id # i) => ~lastCall'.ret
      ]_vars

\* A second cancelRequest on an id already cancelled returned false.
C5_Witness ==
    \E i \in Ids : /\ lastCall = [op |-> "cancelRequest", id |-> i, ret |-> FALSE]
                   /\ cancelled[i]

\* The manager's validateConfig rejects the request's config.
Rejected(r) ==
    request[r] # NoRequest /\ ValidateConfig(request[r].config.provider, request[r].config) # "ok"

\* C6: a config validateConfig rejects never reaches an adapter: createRequest
\* returns a failure, sendStreamingRequest throws a non-retryable error
\* without yielding, no adapter and no fetch is called, and the registry is
\* left as it was.
C6_InvalidConfigNeverReachesAdapter ==
    /\ [](\A r \in Req :
            Rejected(r) =>
                /\ created[r] # "ok"
                /\ adapterCalls[r] = 0 /\ httpCalls[r] = 0
                /\ pc[r] \in {"rejected", "called", "threw"}
                /\ pc[r] = "threw" => /\ error[r] # NoError
                                      /\ ~error[r].retryable
                                      /\ got[r] = << >>)
    /\ [][ \A r \in Req :
            pc'[r] # pc[r] /\ Rejected(r)' => activeRequests' = activeRequests ]_vars

\* sendStreamingRequest threw INVALID_CONFIG while another request was
\* registered.
C6_Witness ==
    \E r \in Req :
        /\ pc[r] = "threw" /\ error[r].code = "INVALID_CONFIG"
        /\ \E i \in Ids : activeRequests[i] # NoReq

\* Codes of the request-level failures: makeRequest's, and the missing body.
RequestLevelCodes ==
    {"NETWORK_ERROR", "TIMEOUT_ERROR", "OPENAI_HTTP", "ANTHROPIC_HTTP", "NO_RESPONSE_BODY"}

\* C7: a request-level failure of the adapter is raised by the manager's
\* iterator once: in the step that raises it the id leaves the registry, and
\* afterwards the iterator yields no chunk and raises nothing else.
C7_RequestLevelFailureIsTerminal ==
    [][ \A r \in Req :
          /\ pc'[r] = "threw" /\ pc[r] # "threw" /\ error'[r].code \in RequestLevelCodes
             => /\ activeRequests'[request[r].id] = NoReq
                /\ got'[r] = got[r]
          /\ pc[r] = "threw"
             => pc'[r] = "threw" /\ error'[r] = error[r] /\ got'[r] = got[r]
      ]_vars

\* A timeout was raised for a request that had registered.
C7_Witness ==
    \E r \in Req : pc[r] = "threw" /\ error[r].code = "TIMEOUT_ERROR" /\ Registered(r)

----------------------------------------------------------------------------
(* Properties of the RateLimiter *)

\* C8: once maxRequestsPerMinute acquireRequest calls have returned true in
\* one window (and no more than that ever do), every further acquireRequest
\* in that window returns false; an acquireRequest made 60000 ms or more after
\* the window's start, outside backoff and below the concurrency ceiling,
\* returns true.
C8_WindowCeiling ==
    /\ [](granted <= maxRequestsPerMinute)
    /\ [][ lastLimiterCall'.op = "acquireRequest" =>
             /\ (granted = maxRequestsPerMinute /\ now - state.lastResetTime < 60000)
                    => ~lastLimiterCall'.ret
             /\ ( /\ now - state.lastResetTime >= 60000
                  /\ ~(now < state.backoffUntil)
                  /\ state.activeRequests < maxConcurrentRequests )
                    => lastLimiterCall'.ret
         ]_vars

\* acquireRequest was refused by the rate ceiling alone: the window's grants
\* are used up, no backoff is active and a concurrency slot is free.
C8_Witness ==
    /\ lastLimiterCall = [op |-> "acquireRequest", ret |-> FALSE, reset |-> FALSE]
    /\ granted = maxRequestsPerMinute
    /\ state.activeRequests < maxConcurrentRequests
    /\ ~(now < state.backoffUntil)

\* C9: acquireRequest is all-or-nothing: returning true it adds exactly one to
\* both the request count and the active count; returning false it changes no
\* limiter state at all.
C9_AcquireAllOrNothing ==
    [][ lastLimiterCall'.op = "acquireRequest" =>
          /\ lastLimiterCall'.ret =>
                /\ state'.requestCount = state.requestCount + 1
                /\ state'.activeRequests = state.activeRequests + 1
          /\ ~lastLimiterCall'.ret => state' = state
      ]_vars

\* C9 as the code has it: acquireRequest first restarts a window that is
\* 60000 ms old or older (request count 0, window start now), whatever it
\* returns; on top of that, returning true adds exactly one to both counters
\* and returning false changes nothing.  The backoff is never touched.
C9_AcquireAllOrNothingAfterWindowReset ==
    [][ lastLimiterCall'.op = "acquireRequest" =>
          LET elapsed == now - state.lastResetTime >= 60000
              base    == IF elapsed THEN 0 ELSE state.requestCount
              more    == IF lastLimiterCall'.ret THEN 1 ELSE 0
          IN  /\ state'.requestCount = base + more
              /\ state'.activeRequests = state.activeRequests + more
              /\ state'.lastResetTime = IF elapsed THEN now ELSE state.lastResetTime
              /\ state'.backoffUntil = state.backoffUntil
      ]_vars

\* acquireRequest returned false and yet restarted the window.
C9_Witness ==
    lastLimiterCall = [op |-> "acquireRequest", ret |-> FALSE, reset |-> TRUE]

\* C10: canMakeRequest returns false exactly when, after the window reset, a
\* backoff is active, the active count is at the concurrency ceiling or the
\* request count is at the rate ceiling; it changes nothing but the window
\* (request count 0 and window start now, when the window is 60000 ms old).
C10_CanMakeRequest ==
    [][ lastLimiterCall'.op = "canMakeRequest" =>
          /\ ~lastLimiterCall'.ret <=>
                \/ now < state'.backoffUntil
                \/ state'.activeRequests >= maxConcurrentRequests
                \/ state'.requestCount >= maxRequestsPerMinute
          /\ state'.activeRequests = state.activeRequests
          /\ state'.backoffUntil = state.backoffUntil
          /\ \/ state' = state
             \/ /\ now - state.lastResetTime >= 60000
                /\ state'.requestCount = 0
                /\ state'.lastResetTime = now
      ]_vars

\* canMakeRequest returned false for the backoff alone.
C10_Witness ==
    /\ lastLimiterCall = [op |-> "canMakeRequest", ret |-> FALSE, reset |-> FALSE]
    /\ now < state.backoffUntil
    /\ state.activeRequests < maxConcurrentRequests
    /\ state.requestCount < maxRequestsPerMinute

\* C11: handleRateLimitResponse() calls without a retry-after value and with
\* no handleSuccessfulRequest() between them apply delays that never decrease
\* from one call to the next and never exceed maxBackoffMs.
C11_BackoffNonDecreasing ==
    [][ ( /\ lastLimiterCall'.op = "handleRateLimitResponse"
          /\ lastLimiterCall'.retryAfter = NoRetryAfter )
        => /\ lastLimiterCall'.backoffMs <= maxBackoffMs
           /\ state'.backoffUntil = now + lastLimiterCall'.backoffMs
           /\ lastBackoffMs # 0 => lastLimiterCall'.backoffMs >= lastBackoffMs
      ]_vars

\* C12: Scenario C.  While a request admitted by acquireRequest() is active,
\* the first handleRateLimitResponse() without a retry-after value sets
\* backoff-until to now + 1000.
C12_FirstBackoffIsBaseDelay ==
    [][ ( /\ lastLimiterCall'.op = "handleRateLimitResponse"
          /\ lastLimiterCall'.retryAfter = NoRetryAfter
          /\ lastBackoffMs = 0
          /\ state.backoffUntil = 0
          /\ state.activeRequests > 0 )
        => state'.backoffUntil = now + 1000
      ]_vars

\* C13: releaseRequest() takes one from a positive active count and leaves a
\* zero one at zero, so the count is never negative; the request count, the
\* window start and backoff-until are left alone.
C13_ReleaseFloorsAtZero ==
    /\ [](state.activeRequests >= 0)
    /\ [][ lastLimiterCall'.op = "releaseRequest" =>
             /\ state'.activeRequests =
                    IF state.activeRequests > 0 THEN state.activeRequests - 1 ELSE 0
             /\ state'.requestCount = state.requestCount
             /\ state'.lastResetTime = state.lastResetTime
             /\ state'.backoffUntil = state.backoffUntil
         ]_vars

\* releaseRequest() was called with no request active, after some were.
C13_Witness ==
    /\ lastLimiterCall = [op |-> "releaseRequest", active |-> 0]
    /\ state.activeRequests = 0
    /\ state.requestCount > 0

\* C14: waitForAvailability(timeoutMs) always returns.  It returns true only
\* when canMakeRequest() is true at that moment, false only when more than
\* timeoutMs has passed since the call and canMakeRequest() is still false,
\* and it never asks for a sleep of more than 1000 ms.
C14_WaitForAvailabilityTerminates ==
    /\ [](waiter.pc = "sleeping" => waiter.sleepMs <= 1000)
    /\ [][ (waiter'.pc = "returned" /\ waiter' # waiter) =>
             LET free == /\ ~(now < state'.backoffUntil)
                         /\ state'.activeRequests < maxConcurrentRequests
                         /\ state'.requestCount < maxRequestsPerMinute
             IN  /\ waiter'.ret => free
                 /\ ~waiter'.ret => (~free /\ now - waiter'.startTime > waiter'.timeoutMs)
         ]_vars
    /\ (waiter.pc = "sleeping" ~> waiter.pc = "returned")

\* A wait with a timeout of 1000 ms gave up: it returned false.
C14_Witness ==
    /\ waiter.pc = "returned" /\ ~waiter.ret /\ waiter.timeoutMs = 1000
    /\ now - waiter.startTime > 1000

----------------------------------------------------------------------------
(* Properties of the adapters' stream processing *)

\* A data line whose payload JSON.parse or the vendor's schema rejects.
Malformed(f) == f.line = "data" /\ f.kind \in {"bad", "bare"}

\* A data line with a valid content frame, and the chunk it stands for.
ContentFrame(f) ==
    /\ f.line = "data"
    /\ \/ f.kind = "json" /\ f.content # "" /\ ~f.finish
       \/ f.kind = "event" /\ f.type = "content_block_delta" /\ f.text # ""

ContentOf(f) == IF f.kind = "json" THEN f.content ELSE f.text

\* C15: a body of a valid content frame, a malformed frame and a valid
\* content frame delivers the chunks of the two valid frames, in order; the
\* malformed frame yields no chunk and raises no error.
C15_MalformedFrameSkipped ==
    /\ [](\A r \in Req :
            ( /\ Len(fed[r]) = 3
              /\ ContentFrame(fed[r][1]) /\ Malformed(fed[r][2]) /\ ContentFrame(fed[r][3]) )
            => got[r] = << [content |-> ContentOf(fed[r][1]), isComplete |-> FALSE],
                           [content |-> ContentOf(fed[r][3]), isComplete |-> FALSE] >>)
    /\ [][ \A r \in Req :
            (Len(fed'[r]) = Len(fed[r]) + 1 /\ Malformed(fed'[r][Len(fed'[r])]))
            => got'[r] = got[r] /\ pc'[r] = "reading" /\ error'[r] = NoError ]_vars

\* Both valid frames' chunks were delivered around a malformed frame.
C15_Witness ==
    \E r \in Req :
        /\ Len(fed[r]) = 3 /\ Malformed(fed[r][2]) /\ Len(got[r]) = 2
        /\ ContentFrame(fed[r][1]) /\ ContentFrame(fed[r][3])

\* C16: Scenario A.  The OpenAI adapter, fed
\* data: {"choices":[{"delta":{"content":"Hi"},"finish_reason":null}]} and
\* data: [DONE], yields [{content "Hi", isComplete false}, {content "",
\* isComplete true}].
C16_ScenarioA ==
    \A r \in Req :
        fed[r] = << [line |-> "data", kind |-> "bare", content |-> "Hi", finish |-> FALSE],
                    [line |-> "data", kind |-> "done"] >>
        => got[r] = << [content |-> "Hi", isComplete |-> FALSE],
                       [content |-> "", isComplete |-> TRUE] >>

\* C17: Scenario B.  The Anthropic adapter, fed a message_start event and a
\* content_block_delta event whose delta.text is "Hello", yields
\* {content "", isComplete false}, then {content "Hello", isComplete false},
\* and nothing else.
C17_ScenarioB ==
    \A r \in Req :
        fed[r] = << [line |-> "data", kind |-> "event", type |-> "message_start",
                     text |-> "", stop |-> FALSE],
                    [line |-> "data", kind |-> "event", type |-> "content_block_delta",
                     text |-> "Hello", stop |-> FALSE] >>
        => got[r] = << [content |-> "", isComplete |-> FALSE],
                       [content |-> "Hello", isComplete |-> FALSE] >>

\* The two events of Scenario B were fed and the second chunk was delivered.
C17_Witness ==
    \E r \in Req :
        /\ Len(fed[r]) = 2 /\ Len(got[r]) = 2
        /\ fed[r][1].line = "data" /\ fed[r][1].kind = "event"
        /\ fed[r][1].type = "message_start"
        /\ fed[r][2].line = "data" /\ fed[r][2].kind = "event"
        /\ fed[r][2].type = "content_block_delta" /\ fed[r][2].text = "Hello"

----------------------------------------------------------------------------
(* Properties of the adapters' errors *)

\* The adapter waits for the transport: for the response, or for the body.
AwaitsTransport(r) == pc[r] \in {"fetching", "reading"}

\* C18: every HTTP call is bounded by its timeout, whether it waits for the
\* response or reads the body: a request that waits for the transport does
\* not wait forever, and a call the timeout ends raises TIMEOUT_ERROR with
\* retryable = true.
C18_TimeoutBoundsEveryCall ==
    /\ [](\A r \in Req :
            (pc[r] = "threw" /\ error[r].code = "TIMEOUT_ERROR") => error[r].retryable)
    /\ \A r \in Req : AwaitsTransport(r) ~> ~AwaitsTransport(r)

\* C19: sendStreamingRequest never throws an error with the parsing-error
\* code; a failure of the transport while the body is read is raised as
\* NETWORK_ERROR with retryable = true.
C19_ParsingErrorNeverEndsStream ==
    \A r \in Req :
        pc[r] = "threw" =>
            /\ error[r].code # "PARSING_ERROR"
            /\ reader[r] = "released" => (error[r].code = "NETWORK_ERROR" /\ error[r].retryable)

\* C20: for a non-2xx status s the adapter raises an error with statusCode s
\* that is retryable exactly when s is 5xx, 429 or 408.
C20_HttpErrorRetryable ==
    [][ \A r \in Req :
          (pc[r] = "fetching" /\ responseStatus'[r] \notin {NoStatus, 200}) =>
             LET s == responseStatus'[r] IN
             /\ pc'[r] = "threw"
             /\ error'[r].statusCode = s
             /\ error'[r].retryable <=> ((s >= 500 /\ s <= 599) \/ s = 429 \/ s = 408)
      ]_vars

\* A 408 was raised as retryable, and a 400 as not.
C20_Witness ==
    \E r \in Req :
        /\ pc[r] = "threw" /\ responseStatus[r] = 408
        /\ error[r].statusCode = 408 /\ error[r].retryable

----------------------------------------------------------------------------
(* Properties of the model list, the storage service and the decoding *)

\* A call of getAvailableModels starts: nothing but the call's own fields move.
ModelsCalled ==
    /\ models.pc = "idle"
    /\ models' # models
    /\ models'.cache = models.cache
    /\ now' = now

\* The call's fetch settles.
ModelsSettled == models.pc = "fetching" /\ models'.pc = "idle"

\* C21: per cache key, an entry younger than 5 minutes is returned as cached
\* without a fetch; an older or absent one makes the call fetch; a fetch that
\* succeeds replaces the entry and is returned as not cached; a fetch that
\* fails returns the expired entry, cached and with its original timestamp,
\* and the static list only when the key had no entry.
C21_ModelCachePolicy ==
    [][ /\ ModelsCalled =>
            LET e == models.cache[models'.key] IN
            IF e # NoEntry /\ now - e.timestamp < 300000
            THEN /\ models'.pc = "idle"
                 /\ models'.result = ModelsResult(e.models, TRUE, e.timestamp, "no")
            ELSE /\ models'.pc = "fetching"
                 /\ models'.cached = e
        /\ ModelsSettled =>
            LET e == models.cached
                k == models.key
                res == models'.result IN
            IF res.fetched = "ok"
            THEN /\ res.models \in FetchedLists
                 /\ res.cached = FALSE
                 /\ models'.cache[k] = [models |-> res.models, timestamp |-> now]
            ELSE /\ res.fetched = "failed"
                 /\ models'.cache = models.cache
                 /\ IF e # NoEntry
                    THEN res = ModelsResult(e.models, TRUE, e.timestamp, "failed")
                    ELSE /\ res.models = FallbackModels
                         /\ res.cached = FALSE
      ]_vars

\* A refresh failed and the expired entry was served.
C21_Witness ==
    /\ models.result.fetched = "failed"
    /\ models.result.cached
    /\ now - models.result.timestamp >= 300000


\* The tier a preference type names.
TierOf(st, type) ==
    CASE type = "none" -> st.memory
      [] type = "session" -> st.session
      [] type = "local" -> st.local

PreferenceTypes == {"none", "session", "local"}

\* The three tiers, without the service's other fields.
Tiers(st) == << st.memory, st.session, st.local >>

\* The tiers that hold a key of provider p.
HoldingTiers(st, p) == { t \in PreferenceTypes : TierOf(st, t)[p] # NoKey }

\* C22: under each preference saveAPIKey does not refuse, a saveAPIKey that
\* returns leaves the key in the tier the preference names and in no other,
\* and leaves the other providers' keys alone; getAPIKey returns what that
\* tier holds for the provider, null when it holds nothing.
C22_SaveThenGetInNamedTier ==
    [][ LET pref == GetStoragePreference(storage)
            p == storage'.last.provider IN
        /\ ( /\ storage'.last.op = "saveAPIKey"
             /\ ~storage'.last.threw ) =>
                /\ HoldingTiers(storage', p) = {pref.type}
                /\ TierOf(storage', pref.type)[p] = storage'.last.key
                /\ Read(storage', pref, p, {}) = storage'.last.key
                /\ \A q \in StorageProviders \ {p} :
                      \A t \in PreferenceTypes :
                         TierOf(storage', t)[q] = TierOf(storage, t)[q]
        /\ storage'.last.op = "getAPIKey" =>
                storage'.last.ret = TierOf(storage, pref.type)[p]
      ]_storage

\* C29: a saveAPIKey that throws leaves the three tiers as they were.
C29_FailedSaveChangesNothing ==
    [][ ( /\ storage'.last.op = "saveAPIKey"
          /\ storage'.last.threw ) => Tiers(storage') = Tiers(storage)
      ]_storage

\* C30: while no storage operation has failed, each provider's key is in at
\* most one tier, and a setStoragePreference that returns leaves no key in a
\* tier less restrictive than the type it set.
C30_OneTierPerProvider ==
    /\ [](~storage.failed =>
            \A p \in StorageProviders : Cardinality(HoldingTiers(storage, p)) <= 1)
    /\ [][ ( /\ storage'.last.op = "setStoragePreference"
             /\ ~storage'.last.threw
             /\ ~storage'.failed ) =>
                /\ storage'.last.type = "none" =>
                      \A p \in StorageProviders :
                         storage'.session[p] = NoKey /\ storage'.local[p] = NoKey
                /\ storage'.last.type = "session" =>
                      \A p \in StorageProviders : storage'.local[p] = NoKey
         ]_storage

\* The preference went to "none" while one provider's key was in memory and
\* the other's was not.
C30_Witness ==
    /\ ~storage.failed
    /\ storage.last.op = "setStoragePreference"
    /\ storage.last.type = "none"
    /\ ~storage.last.threw
    /\ \E p \in StorageProviders : storage.memory[p] # NoKey


\* C23: over any interval of 60000 ms, at most maxRequestsPerMinute calls of
\* acquireRequest() return true: when a call returns true, it is at most the
\* maxRequestsPerMinute-th to do so in the 60000 ms that end with it.
C23_RollingWindowCeiling == Len(ledger.grants) <= maxRequestsPerMinute

\* C24: under any interleaving of canMakeRequest, waitForAvailability,
\* acquireRequest and releaseRequest by callers that release only a slot they
\* acquired, the active count is the number of slots acquired and not yet
\* released, it stays within 0..maxConcurrentRequests, and the window request
\* count never exceeds maxRequestsPerMinute.
C24_NoLostUpdates ==
    /\ state.activeRequests = ledger.held
    /\ state.activeRequests >= 0
    /\ state.activeRequests <= maxConcurrentRequests
    /\ state.requestCount <= maxRequestsPerMinute

\* More slots were granted than can be held at once, so one was released and
\* acquired again; every slot is taken, and a caller waits for one.
C24_Witness ==
    /\ state.requestCount > maxConcurrentRequests
    /\ state.activeRequests = maxConcurrentRequests
    /\ waiter.pc = "sleeping"


----------------------------------------------------------------------------
(* Properties of the reader, the registry entries and the first pull *)

\* C26: the lock on the body's reader is released on every exit path and once:
\* it is held only while the request's iterator is suspended or reading, it is
\* no longer held when the iterator has finished - by the end of the stream, by
\* an error of the read, by a cancellation or by the caller's return() - and
\* once released it is not taken or released again.
C26_ReaderReleasedOnce ==
    /\ [](\A r \in Req :
            /\ pc[r] \in {"done", "threw"} => reader[r] # "held"
            /\ reader[r] = "held" => pc[r] \in {"reading", "yielded", "last", "cancelled"})
    /\ [][ \A r \in Req :
            reader'[r] # reader[r] =>
                << reader[r], reader'[r] >> \in { << "none", "held" >>,
                                                 << "held", "released" >> } ]_vars

\* The caller abandoned the iterator after a chunk, and the reader is released.
C26_Witness ==
    /\ returned[1]
    /\ got[1] # << >>
    /\ reader[1] = "released"


\* C27: every request that is streaming and was not cancelled keeps its own
\* token in the registry under its id, whatever another request does -
\* completes, fails, is cancelled, or was created with the same id.
C27_OwnEntryKept ==
    \A r \in Req :
        ( /\ pc[r] \in {"fetching", "reading", "yielded"}
          /\ ~aborted[r] ) => activeRequests[request[r].id] = r


\* No other request carries the id of r.
OwnId(r) == \A q \in Req \ {r} : request[q].id # request[r].id

\* C28: between the call of sendStreamingRequest and the first pull the
\* request's token is not registered and its id, if no other request carries
\* it, is absent from the registry; cancelRequest on that id then returns false
\* and changes nothing; and the first pull starts the request uncancelled,
\* registered under its id when its config passes.
C28_RegisteredOnFirstPull ==
    /\ [](\A r \in Req :
            pc[r] = "called" =>
                /\ activeRequests[request[r].id] # r
                /\ ~aborted[r]
                /\ OwnId(r) => activeRequests[request[r].id] = NoReq)
    /\ [][ \A r \in Req :
            /\ ( /\ pc[r] = "called"
                 /\ OwnId(r)
                 /\ lastCall'.op = "cancelRequest"
                 /\ lastCall'.id = request[r].id ) =>
                    /\ lastCall'.ret = FALSE
                    /\ pc'[r] = "called"
                    /\ activeRequests' = activeRequests
                    /\ aborted' = aborted
            /\ ( /\ pc[r] = "called"
                 /\ pc'[r] = "fetching" ) =>
                    /\ activeRequests'[request[r].id] = r
                    /\ ~aborted'[r]
                    /\ ~cancelled'[request[r].id]
         ]_vars

\* cancelRequest on the id of a request called and not yet pulled returned
\* false.
C28_Witness ==
    \E r \in Req :
        /\ pc[r] = "called"
        /\ OwnId(r)
        /\ lastCall = [op |-> "cancelRequest", id |-> request[r].id, ret |-> FALSE]


====
